---- MODULE Spec2Model ----
(***************************************************************************)
(* The TSP heuristic of src/solve.py (isolation classification, cheapest   *)
(* insertion, 2-opt) and src/solves3.py (the same construction, 3-opt).    *)
(*                                                                         *)
(* Python positions and city indices are 0-based; a tour is a TLA+         *)
(* sequence of 0-based city indices and At(t, i) reads position i.         *)
(* Distances are exact integers: the cities are drawn from Sites, a point  *)
(* set whose pairwise Euclidean distances are all integers, on which       *)
(* math.sqrt is exact.                                                     *)
(* A Python set is iterated in an order the language leaves open: every    *)
(* place where the code's result depends on that order is a choice (\E).   *)
(* Line 67 of src/solves3.py (improved = True) is written at column 0,     *)
(* which ends the body of solve before the indented 3-opt loop; the file   *)
(* is read as its next lines and its return tour require, with that line   *)
(* a part of solve.                                                        *)
(***************************************************************************)
EXTENDS Integers, Sequences, FiniteSets, TLC

\* ------------------------------------------------------------ bounds
\* the longest input and the number of candidate sites: of both programs, of the
\* 3-opt program alone (whose scan has its first triple at 5 cities), and of two
\* runs on one input
MaxN == 5
NumSites == 6
MaxN3 == 6
NumSites3 == 7
MaxNTwice == 5

\* float('inf')
INF == 1000000

\* Candidate cities: (0, +-24) and points of the x axis at distances
\* 0, 7, 10, 18, 32, 45 from the origin (7-24-25, 10-24-26, 18-24-30,
\* 32-24-40, 45-24-51), one point twice (two cities at the same place).
Sites ==
  << <<-45, 0>>, <<0, -24>>, <<0, 0>>, <<0, 0>>, <<0, 24>>, <<-7, 0>>,
     <<10, 0>>, <<18, 0>>, <<-32, 0>> >>

\* solve.py is also run on the 6-city inputs that begin with the sites Head2 and
\* go on with the sites Tail2 in any order, solves3.py on the 7-city inputs made
\* of Head3 and Tail3.
Head2 == << 1, 2 >>
Tail2 == { 3, 5, 7, 8 }
Head3 == << 7, 2 >>
Tail3 == { 1, 3, 4, 5, 6 }

SiteIdx(nsites) == 1..(IF nsites < Len(Sites) THEN nsites ELSE Len(Sites))

VARIABLES
  variant,           \* 2: solve.py (2-opt), 3: solves3.py (3-opt)
  cities,            \* the input: a sequence of points <<x, y>>
  dist_matrix,       \* dist_matrix[a][b], a, b in 0..N-1
  pc,                \* "start", "classified", "build", "fallback", "search", "done"
  isolated_indices,  \* the set isolated_indices (consumed by the insertion)
  remaining_indices, \* the members of remaining_indices(_for_hull)
  unvisited,         \* the core points not yet inserted
  tour,
  improved,
  scan,              \* the <<i, j>> (2-opt) or <<i, j, k, pattern>> (3-opt) of the last move
  built,             \* history: the tour handed to local search
  prev,              \* history: the tour before the last applied move
  gain,              \* history: <<d0, best>> of the last applied move
  moves,             \* history: reversals applied in the current 2-opt sweep
  most,              \* history: the most reversals one 2-opt sweep applied
  seen,              \* history: the arrangements local search has been in
  revisited,         \* history: the last move led to an arrangement of seen
  run,               \* 1, or 2 in the second of two runs on the same input
  first_tour         \* the tour the first run returned

vars == << variant, cities, dist_matrix, pc, isolated_indices, remaining_indices,
           unvisited, tour, improved, scan, built, prev, gain, moves, most, seen,
           revisited, run, first_tour >>

N == Len(cities)
Idx == 0..(N - 1)

\* ------------------------------------------------------------ helpers
Abs(x) == IF x < 0 THEN -x ELSE x

Range(s) == { s[p] : p \in DOMAIN s }

At(t, i) == t[i + 1]

\* t[a:b]
Slice(t, a, b) == SubSeq(t, a + 1, b)

\* s[::-1]
Reversed(s) == [p \in 1..Len(s) |-> s[Len(s) + 1 - p]]

SetMin(S) == CHOOSE x \in S : \A y \in S : x <= y

\* math.sqrt on a perfect square
Sqrt(n, hi) == CHOOSE r \in 0..hi : r * r = n

distance(city1, city2) ==
  LET dx == city1[1] - city2[1]
      dy == city1[2] - city2[2]
  IN  Sqrt(dx * dx + dy * dy, Abs(dx) + Abs(dy))

DistMatrix(cs) ==
  [a \in 0..(Len(cs) - 1) |->
    [b \in 0..(Len(cs) - 1) |->
      IF a <= b THEN distance(cs[a + 1], cs[b + 1])
                ELSE distance(cs[b + 1], cs[a + 1])]]

RECURSIVE SumUpTo(_, _)
SumUpTo(f, n) == IF n < 0 THEN 0 ELSE f[n] + SumUpTo(f, n - 1)

\* The cyclic length of tour t: consecutive distances and the wrap edge.
TourLength(t) ==
  IF Len(t) = 0 THEN 0
  ELSE SumUpTo([i \in 0..(Len(t) - 1) |->
                  dist_matrix[At(t, i)][At(t, (i + 1) % Len(t))]], Len(t) - 1)

IdentityTour == [p \in 1..N |-> p - 1]

\* ------------------------------------------------------------ input
\* the sequences of n different members of S
RECURSIVE InjSeqs(_, _)
InjSeqs(n, S) ==
  IF n = 0 THEN { << >> }
  ELSE UNION { { Append(s, x) : x \in S \ Range(s) } : s \in InjSeqs(n - 1, S) }

\* the cities at the sites s names
CitiesAt(s) == [p \in 1..Len(s) |-> Sites[s[p]]]

\* the inputs: up to maxn cities at different sites, in any order
Inputs(maxn, nsites) ==
  UNION { { CitiesAt(s) : s \in InjSeqs(n, SiteIdx(nsites)) } : n \in 0..maxn }

\* the inputs that begin with the sites of head and go on with those of rest
LongInputs(head, rest) ==
  { CitiesAt(head \o s) : s \in InjSeqs(Cardinality(rest), rest) }

InitWith(vs, inputs) ==
  /\ variant \in vs
  /\ cities \in inputs
  /\ dist_matrix = DistMatrix(cities)
  /\ pc = "start"
  /\ isolated_indices = {}
  /\ remaining_indices = {}
  /\ unvisited = {}
  /\ tour = <<>>
  /\ improved = FALSE
  /\ scan = <<-1, -1>>
  /\ built = <<>>
  /\ prev = <<>>
  /\ gain = <<0, 0>>
  /\ moves = 0
  /\ most = 0
  /\ seen = {}
  /\ revisited = FALSE
  /\ run = 1
  /\ first_tour = <<>>

\* ------------------------------------------------------------ classification
\* nearest_dists[i]; with N = 1 solve.py keeps float('inf'), solves3.py takes 0
NearestDist(i) ==
  IF N > 1 THEN SetMin({ dist_matrix[i][j] : j \in Idx \ {i} })
  ELSE IF variant = 2 THEN INF ELSE 0

NearestDists == [i \in Idx |-> NearestDist(i)]

\* a slip of the classification: >= for >
IsIsolatedOrEqual(d, total) == 2 * N * d >= 3 * total

\* d > avg_nearest_dist * 1.5, avg_nearest_dist = sum(nearest_dists) / N
IsIsolated(d, total) == 2 * N * d > 3 * total

IsolatedIndices ==
  LET nd == NearestDists
      total == SumUpTo(nd, N - 1)
  IN  { i \in Idx : IsIsolated(nd[i], total) }

ReturnEmpty ==
  /\ pc = "start"
  /\ N = 0
  /\ pc' = "done"
  /\ tour' = <<>>
  /\ UNCHANGED << variant, cities, dist_matrix, isolated_indices, remaining_indices,
                  unvisited, improved, scan, built, prev, gain, moves, most, seen,
                  revisited, run, first_tour >>

\* solves3.py resets the classification when no core point is left
Classify ==
  /\ pc = "start"
  /\ N > 0
  /\ LET iso == IsolatedIndices
         rem == Idx \ iso
     IN  IF variant = 3 /\ rem = {}
         THEN /\ remaining_indices' = Idx
              /\ isolated_indices' = {}
         ELSE /\ remaining_indices' = rem
              /\ isolated_indices' = iso
  /\ pc' = "classified"
  /\ UNCHANGED << variant, cities, dist_matrix, unvisited, tour, improved, scan,
                  built, prev, gain, moves, most, seen, revisited, run, first_tour >>

\* solve.py: fewer than 2 core points, the tour is list(range(N))
Fallback ==
  /\ pc = "classified"
  /\ variant = 2
  /\ Cardinality(remaining_indices) < 2
  /\ tour' = IdentityTour
  /\ pc' = "fallback"
  /\ UNCHANGED << variant, cities, dist_matrix, isolated_indices, remaining_indices,
                  unvisited, improved, scan,
                  built, prev, gain, moves, most, seen, revisited, run, first_tour >>

\* tour = [remaining[0]], unvisited = set(remaining[1:]); remaining lists a set
Seed ==
  /\ pc = "classified"
  /\ variant = 2 => Cardinality(remaining_indices) >= 2
  /\ \E s \in remaining_indices :
       /\ tour' = << s >>
       /\ unvisited' = remaining_indices \ {s}
  /\ pc' = "build"
  /\ UNCHANGED << variant, cities, dist_matrix, isolated_indices, remaining_indices,
                  improved, scan, built, prev, gain, moves, most, seen, revisited, run, first_tour >>

\* ------------------------------------------------------------ cheapest insertion
\* a slip of the insertion cost: the removed edge is not subtracted
InsertionCostNoRemoved(t, point_idx, i) ==
  LET u == At(t, i)
      v == At(t, (i + 1) % Len(t))
  IN  dist_matrix[u][point_idx] + dist_matrix[point_idx][v]

\* cost of inserting point_idx into the edge after position i of t
InsertionCost(t, point_idx, i) ==
  LET u == At(t, i)
      v == At(t, (i + 1) % Len(t))
  IN  dist_matrix[u][point_idx] + dist_matrix[point_idx][v] - dist_matrix[u][v]

\* the costs of a point at every edge position of t
EdgeCosts(t, point_idx) == [i \in 0..(Len(t) - 1) |-> InsertionCost(t, point_idx, i)]

\* the lowest edge position with cost c (cost < best_insertion_cost is strict)
FirstEdge(costs, c) == SetMin({ i \in DOMAIN costs : costs[i] = c })

\* The (point, edge) pairs the scan can end with: the first point, in the set's
\* iteration order, of least cost, at its lowest such edge.
BestInsertions(t, pool) ==
  LET costs == [p \in pool |-> EdgeCosts(t, p)]
      least == [p \in pool |-> SetMin(Range(costs[p]))]
      best == SetMin(Range(least))
  IN  { << p, FirstEdge(costs[p], best) >> : p \in { q \in pool : least[q] = best } }

\* tour.insert(pos, x)
ListInsert(t, pos, x) == SubSeq(t, 1, pos) \o << x >> \o SubSeq(t, pos + 1, Len(t))

InsertCore ==
  /\ pc = "build"
  /\ unvisited # {}
  /\ \E ch \in BestInsertions(tour, unvisited) :
       /\ tour' = ListInsert(tour, ch[2] + 1, ch[1])
       /\ unvisited' = unvisited \ {ch[1]}
  /\ UNCHANGED << variant, cities, dist_matrix, pc, isolated_indices,
                  remaining_indices, improved, scan, built, prev, gain, moves, most, seen,
                  revisited, run, first_tour >>

InsertIsolated ==
  /\ pc = "build"
  /\ unvisited = {}
  /\ isolated_indices # {}
  /\ \E ch \in BestInsertions(tour, isolated_indices) :
       /\ tour' = ListInsert(tour, ch[2] + 1, ch[1])
       /\ isolated_indices' = isolated_indices \ {ch[1]}
  /\ UNCHANGED << variant, cities, dist_matrix, pc, remaining_indices, unvisited,
                  improved, scan, built, prev, gain, moves, most, seen, revisited, run, first_tour >>

\* improved = True; while improved: improved = False (entering the first sweep)
StartSearch ==
  /\ \/ pc = "fallback"
     \/ pc = "build" /\ unvisited = {} /\ isolated_indices = {}
  /\ pc' = "search"
  /\ improved' = FALSE
  /\ built' = tour
  /\ seen' = {tour}
  /\ scan' = <<-1, -1>>
  /\ moves' = 0
  /\ UNCHANGED << variant, cities, dist_matrix, isolated_indices, remaining_indices,
                  unvisited, tour, prev, gain, most, revisited, run, first_tour >>

\* ------------------------------------------------------------ 2-opt (solve.py)
\* a slip of the sweep: j stops before the last position
SweepPairsNoLast == UNION { { << i, j >> : j \in (i + 2)..(N - 2) } : i \in 0..(N - 2) }

\* for i in range(N - 1): for j in range(i + 2, N)
SweepPairs == UNION { { << i, j >> : j \in (i + 2)..(N - 1) } : i \in 0..(N - 2) }

\* scan order of the two nested loops
PairBefore(p, q) == p[1] < q[1] \/ (p[1] = q[1] /\ p[2] < q[2])

CurrentDist(t, i, j) ==
  dist_matrix[At(t, i)][At(t, (i + 1) % N)] + dist_matrix[At(t, j)][At(t, (j + 1) % N)]

NewDist(t, i, j) ==
  dist_matrix[At(t, i)][At(t, j)] + dist_matrix[At(t, (i + 1) % N)][At(t, (j + 1) % N)]

\* slips of the comparison: > for <, <= for <
Improves2Longer(t, i, j) == NewDist(t, i, j) > CurrentDist(t, i, j)

Improves2OrEqual(t, i, j) == NewDist(t, i, j) <= CurrentDist(t, i, j)

Improves2(t, i, j) == NewDist(t, i, j) < CurrentDist(t, i, j)

\* a slip of the slice assignment: the reversed part replaces tour[i_plus_1 : j]
Reverse2KeepingLast(t, i, j) ==
  LET i_plus_1 == (i + 1) % N
  IN  Slice(t, 0, i_plus_1) \o Reversed(Slice(t, i_plus_1, j + 1)) \o Slice(t, j, N)

\* tour[i_plus_1 : j + 1] = sub_tour_to_reverse[::-1]
Reverse2(t, i, j) ==
  LET i_plus_1 == (i + 1) % N
  IN  Slice(t, 0, i_plus_1) \o Reversed(Slice(t, i_plus_1, j + 1)) \o Slice(t, j + 1, N)

\* the pairs the sweep has still to examine that improve the tour as it stands
Improving2 == { p \in SweepPairs : PairBefore(scan, p) /\ Improves2(tour, p[1], p[2]) }

FirstPair(S) == CHOOSE q \in S : \A r \in S : r = q \/ PairBefore(q, r)

\* The sweep runs on to the next pair whose reconnection is strictly shorter,
\* applies it and continues after it.
TwoOptMove ==
  /\ pc = "search"
  /\ variant = 2
  /\ LET imp == Improving2
         p == FirstPair(imp)
         t == Reverse2(tour, p[1], p[2])
     IN  /\ imp # {}
         /\ tour' = t
         /\ scan' = p
         /\ gain' = << CurrentDist(tour, p[1], p[2]), NewDist(tour, p[1], p[2]) >>
         /\ revisited' = (t \in seen)
         /\ seen' = seen \cup {t}
  /\ prev' = tour
  /\ improved' = TRUE
  /\ moves' = moves + 1
  /\ most' = (IF moves + 1 > most THEN moves + 1 ELSE most)
  /\ UNCHANGED << variant, cities, dist_matrix, pc, isolated_indices,
                  remaining_indices, unvisited, built, run, first_tour >>

\* The sweep ends: while improved either starts the next sweep or exits.
TwoOptSweepEnd ==
  /\ pc = "search"
  /\ variant = 2
  /\ Improving2 = {}
  /\ IF improved
     THEN /\ improved' = FALSE
          /\ scan' = <<-1, -1>>
          /\ moves' = 0
          /\ pc' = pc
     ELSE /\ pc' = "done"
          /\ UNCHANGED << improved, scan, moves >>
  /\ UNCHANGED << variant, cities, dist_matrix, isolated_indices, remaining_indices,
                  unvisited, tour, built, prev, gain, most, seen, revisited, run,
                  first_tour >>

\* ------------------------------------------------------------ 3-opt (solves3.py)
\* for i in range(N): for j in range(i + 2, N):
\*   for k in range(j + 2, N + (1 if i > 0 else 0)): if k >= N: continue
ScanTriples ==
  UNION { UNION { { << i, j, k >> :
                      k \in { x \in (j + 2)..(N + (IF i > 0 THEN 1 ELSE 0) - 1) :
                                ~(x >= N) } } :
                  j \in (i + 2)..(N - 1) } :
          i \in 0..(N - 1) }

TripleBefore(p, q) ==
  \/ p[1] < q[1]
  \/ p[1] = q[1] /\ p[2] < q[2]
  \/ p[1] = q[1] /\ p[2] = q[2] /\ p[3] < q[3]

\* << d0, d1, ..., d7 >>
PatternCosts(t, i, j, k) ==
  LET A == At(t, i)
      B == At(t, (i + 1) % N)
      C == At(t, j)
      D == At(t, (j + 1) % N)
      E == At(t, k)
      F == At(t, (k + 1) % N)
      d == dist_matrix
  IN  << d[A][B] + d[C][D] + d[E][F],
         d[A][C] + d[B][D] + d[E][F],
         d[A][B] + d[C][E] + d[D][F],
         d[A][E] + d[F][B] + d[C][D],
         d[A][C] + d[B][E] + d[D][F],
         d[A][D] + d[E][B] + d[C][F],
         d[A][D] + d[E][C] + d[B][F],
         d[A][E] + d[F][C] + d[B][D] >>

\* min(d0, d1, ..., d7)
BestDist(ds) == SetMin(Range(ds))

\* best_dist < d0
Improves3(t, i, j, k) ==
  LET ds == PatternCosts(t, i, j, k) IN BestDist(ds) < ds[1]

\* the first of d1..d7 equal to best_dist (the if / elif chain)
BestPattern(ds) == SetMin({ p \in 1..7 : ds[p + 1] = BestDist(ds) })

\* what the branch of pattern p appends after tour[:i+1]
Reassembled(s1, s2, p) ==
  CASE p = 1 -> Reversed(s1) \o s2
    [] p = 2 -> s1 \o Reversed(s2)
    [] p = 3 -> Reversed(s1 \o s2)
    [] p = 4 -> Reversed(s1) \o Reversed(s2)
    [] p = 5 -> s2 \o s1
    [] p = 6 -> Reversed(s2) \o s1
    [] p = 7 -> s2 \o Reversed(s1)

\* new_tour = tour[:i+1] + reassembly of s1, s2 + tour[k+1:]
Rebuild(t, i, j, k, p) ==
  LET s1 == Slice(t, i + 1, j + 1)
      s2 == Slice(t, j + 1, k + 1)
  IN  Slice(t, 0, i + 1) \o Reassembled(s1, s2, p) \o Slice(t, k + 1, N)

Improving3 == { q \in ScanTriples : Improves3(tour, q[1], q[2], q[3]) }

FirstTriple(S) == CHOOSE x \in S : \A y \in S : y = x \/ TripleBefore(x, y)

\* The scan stops at the first triple with best_dist < d0, applies its first best
\* pattern, breaks out of the three loops and starts over (improved = True, then
\* while improved: improved = False).
ThreeOptMove ==
  /\ pc = "search"
  /\ variant = 3
  /\ LET imp == Improving3
         q == FirstTriple(imp)
         ds == PatternCosts(tour, q[1], q[2], q[3])
         p == BestPattern(ds)
         t == Rebuild(tour, q[1], q[2], q[3], p)
     IN  /\ imp # {}
         /\ tour' = t
         /\ scan' = << q[1], q[2], q[3], p >>
         /\ gain' = << ds[1], BestDist(ds) >>
         /\ revisited' = (t \in seen)
         /\ seen' = seen \cup {t}
  /\ prev' = tour
  /\ UNCHANGED << variant, cities, dist_matrix, pc, isolated_indices,
                  remaining_indices, unvisited, improved, moves, most, built, run,
                  first_tour >>

\* a full scan of the triples applied nothing: improved stays False, return tour
ThreeOptExit ==
  /\ pc = "search"
  /\ variant = 3
  /\ Improving3 = {}
  /\ pc' = "done"
  /\ UNCHANGED << variant, cities, dist_matrix, isolated_indices, remaining_indices,
                  unvisited, tour, improved, scan, built, prev, gain, moves, most, seen,
                  revisited, run, first_tour >>

\* ------------------------------------------------------------ a second run
\* solve is called again on the same cities; first_tour keeps what it returned
Rerun ==
  /\ pc = "done"
  /\ run = 1
  /\ run' = 2
  /\ first_tour' = tour
  /\ pc' = "start"
  /\ isolated_indices' = {}
  /\ remaining_indices' = {}
  /\ unvisited' = {}
  /\ tour' = <<>>
  /\ improved' = FALSE
  /\ scan' = <<-1, -1>>
  /\ built' = <<>>
  /\ prev' = <<>>
  /\ gain' = <<0, 0>>
  /\ moves' = 0
  /\ most' = 0
  /\ seen' = {}
  /\ revisited' = FALSE
  /\ UNCHANGED << variant, cities, dist_matrix >>

\* ------------------------------------------------------------ specifications
Build3 == ReturnEmpty \/ Classify \/ Seed \/ InsertCore \/ InsertIsolated \/ StartSearch

Build == Build3 \/ Fallback

Next2 == Build \/ TwoOptMove \/ TwoOptSweepEnd

Next3 == Build3 \/ ThreeOptMove \/ ThreeOptExit

Next == Next2 \/ ThreeOptMove \/ ThreeOptExit

NextTwice == Next \/ Rerun

Init == InitWith({2, 3}, Inputs(MaxN, NumSites))

Init2 == InitWith({2}, Inputs(MaxN, NumSites) \cup LongInputs(Head2, Tail2))

Init3 == InitWith({3}, Inputs(MaxN3, NumSites3) \cup LongInputs(Head3, Tail3))

InitTwice == InitWith({2, 3}, Inputs(MaxNTwice, NumSites))

\* both programs, one run
Spec == Init /\ [][Next]_vars

\* solve.py; the interpreter keeps running the loop, so a step that can be taken is
Spec2 == Init2 /\ [][Next2]_vars /\ WF_vars(Next2)

\* solves3.py
Spec3 == Init3 /\ [][Next3]_vars

\* both programs, run twice on the same input
SpecTwice == InitTwice /\ [][NextTwice]_vars

\* ------------------------------------------------------------ claims
Injective(t) == \A p, q \in DOMAIN t : p # q => t[p] # t[q]

\* C1: in both programs the tour is at every step a duplicate-free sequence of
\* city indices, and the tour returned holds each index of 0..N-1 exactly once;
\* N = 0 returns the empty tour and N = 1 returns [0].
TourIsPermutation ==
  /\ Injective(tour)
  /\ Range(tour) \subseteq Idx
  /\ pc = "done" => Len(tour) = N /\ Range(tour) = Idx
  /\ pc = "done" /\ N = 0 => tour = << >>
  /\ pc = "done" /\ N = 1 => tour = << 0 >>

\* a 3-opt run of 5 cities that applied a move has returned
PermutationAfterMoves == pc = "done" /\ variant = 3 /\ N >= 5 /\ prev # << >>

\* C2: in solve.py the cyclic length of the tour is, after every reversal and on
\* return, at most the length of the tour construction handed to 2-opt, also after
\* a reversal with j = N - 1.
TwoOptNeverLonger ==
  variant = 2 /\ pc \in {"search", "done"} => TourLength(tour) <= TourLength(built)

\* a reversal up to the last position has just shortened the tour
WrapReversalShortens ==
  /\ variant = 2 /\ pc = "search" /\ prev # << >>
  /\ scan[2] = N - 1
  /\ TourLength(tour) < TourLength(prev)

\* C3 as claimed: for N >= 2 the constructed tour is no longer than the identity tour.
ConstructionBeatsIdentity ==
  pc = "search" /\ N >= 2 => TourLength(built) <= TourLength(IdentityTour)

\* C3 as amended: for 2 <= N <= 4 the constructed tour is no longer than the
\* identity tour.
ConstructionBeatsIdentitySmall ==
  pc = "search" /\ N >= 2 /\ N <= 4 => TourLength(built) <= TourLength(IdentityTour)

\* construction of 4 cities ended with a tour strictly shorter than the identity tour
SmallConstructionShorter ==
  pc = "search" /\ N = 4 /\ TourLength(built) < TourLength(IdentityTour)

\* C4: the tour solve.py returns is 2-opt locally optimal: for no positions i < j
\* is dist(tour[i], tour[j]) + dist(tour[i+1], tour[j+1]) strictly less than
\* dist(tour[i], tour[i+1]) + dist(tour[j], tour[j+1]) (positions modulo N).
TwoOptLocallyOptimal ==
  variant = 2 /\ pc = "done" =>
    \A i, j \in Idx : i < j => ~(NewDist(tour, i, j) < CurrentDist(tour, i, j))

\* solve.py has returned after a sweep that applied several reversals
ReturnedAfterBusySweep == variant = 2 /\ pc = "done" /\ most >= 2

\* C5: the tour solves3.py returns is 3-opt locally optimal: for all cut positions
\* i < j < k, none of the 7 reassemblies of tour[i+1..j] and tour[j+1..k] gives a
\* tour strictly shorter than the one returned.
ThreeOptLocallyOptimal ==
  variant = 3 /\ pc = "done" =>
    \A i, j, k \in Idx : i < j /\ j < k =>
      \A p \in 1..7 : ~(TourLength(Rebuild(tour, i, j, k, p)) < TourLength(tour))

\* C6: a second run of solve on the same input returns the identical tour.
SecondRunSameTour == run = 2 /\ pc = "done" => tour = first_tour

ThreeOptMoveAccounting ==
  variant = 3 /\ pc \in {"search", "done"} /\ prev # << >> =>
    /\ TourLength(tour) = TourLength(prev) - gain[1] + gain[2]
    /\ TourLength(tour) < TourLength(prev)
    /\ TourLength(tour) <= TourLength(built)

\* C9: the 3-opt loop never brings the tour back to an earlier arrangement (so the
\* moves it applies are finitely many and it returns).
ThreeOptNeverRevisits == variant = 3 => ~revisited

\* C10: the 2-opt loop of solve.py terminates: every reversal strictly shortens the
\* tour, the sweep goes on from the pair after the reversal, and the loop exits at
\* the end of exactly the sweeps that applied no reversal.
TwoOptTerminates ==
  /\ [][TwoOptMove =>
          /\ TourLength(tour') < TourLength(tour)
          /\ PairBefore(scan, scan')
          /\ pc' = "search"]_vars
  /\ [][TwoOptSweepEnd => (pc' = "done" <=> moves = 0)]_vars
  /\ <>(pc = "done")

\* solve.py went through a second sweep and returned
ReturnedAfterSecondSweep ==
  variant = 2 /\ pc = "done" /\ prev # << >> /\ moves = 0 /\ most >= 1
====
